---- MODULE Spec2Model ----
(***************************************************************************)
(* A model of pesos/scheduler.py: the SchedulerProcess actor (one handler  *)
(* at a time) and the PesosSchedulerDriver facade (user threads, under the *)
(* driver's lock).                                                         *)
(*                                                                         *)
(* Observation: every action writes `last` (which operation ran and how it *)
(* ended) and `ev` (what it sent, scheduled and called, in order).         *)
(***************************************************************************)
EXTENDS Integers, Sequences, FiniteSets, Bags, TLC

\* ------------------------------------------------------------------ bounds
\* What the environment does in one behaviour: driver methods the user threads
\* call, protocol messages the network delivers, results of the master detector.
MaxCalls == 2
MaxMessages == 3
MaxDetections == 1
\* Commands of the user that wait in the mailbox at one time.
MaxMailbox == 1
\* Longest offer_ids / tasks / offers list of one call or message.
MaxList == 2
\* Largest backoff argument a delayed _do_registration is scheduled with.
MaxBackoff == 240
\* The driver facade on its own: driver methods called, no traffic.
MaxDriverCalls == 4
\* Registration on its own: driver methods, registration replies, detector results.
MaxRegistrationCalls == 2
MaxRegistrationMessages == 2
MaxRegistrationDetections == 2

\* --------------------------------------------------------------- constants
MASTER_DETECTION_RETRY_SECONDS == 10
MASTER_INITIAL_BACKOFF_SECONDS == 2
MASTER_MAX_BACKOFF_SECONDS == 60

\* Addresses are PIDs; None stands for Python's None where a PID is expected.
PID(id, ip, port) == [id |-> id, ip |-> ip, port |-> port]
None == PID("None", "", 0)
Masters == {PID("master", "10.0.0.1", 5050), PID("master", "10.0.0.9", 5050)}
NoId == ""
FrameworkIds == {"f1", "f2"}
OfferIds == {"o1", "o2"}
SlaveIds == {"s1", "s2"}
TaskIds == {"t1", "t2"}

DRIVER_NOT_STARTED == "DRIVER_NOT_STARTED"
DRIVER_RUNNING == "DRIVER_RUNNING"
DRIVER_ABORTED == "DRIVER_ABORTED"
DRIVER_STOPPED == "DRIVER_STOPPED"

\* A pid on the wire is the string "id@ip:port", here its three parts.
PidString(slave_id) == <<"slave(1)", slave_id, 5051>>
PID_from_string(s) == PID(s[1], s[2], s[3])

\* The offers the master makes: each offer is for one slave.
Offers == { [id |-> "o1", slave_id |-> "s1"], [id |-> "o2", slave_id |-> "s2"] }

\* The tasks a user passes to launchTasks: executor is "absent", "no_id" (an
\* executor without framework_id) or the framework id it carries.
Tasks ==
  { [task_id |-> "t1", slave_id |-> "s1", executor |-> "absent", command |-> TRUE],
    [task_id |-> "t2", slave_id |-> "s2", executor |-> "no_id",  command |-> FALSE],
    [task_id |-> "t3", slave_id |-> "s1", executor |-> "no_id",  command |-> TRUE],
    [task_id |-> "t4", slave_id |-> "s2", executor |-> "f2",     command |-> FALSE] }

SeqsUpTo(S, n) == UNION { [1..k -> S] : k \in 0..n }
Range(s) == { s[i] : i \in DOMAIN s }
Max(a, b) == IF a >= b THEN a ELSE b
Min(a, b) == IF a <= b THEN a ELSE b
EmptyMap == [x \in {} |-> x]
MapPut(f, k, v) == [x \in (DOMAIN f) \cup {k} |-> IF x = k THEN v ELSE f[x]]
MapPop(f, k) == [x \in (DOMAIN f) \ {k} |-> f[x]]

VARIABLES
  status,             \* PesosSchedulerDriver.status
  scheduler_process,  \* TRUE once start() has spawned the process
  mailbox,            \* commands dispatched to the process, not yet handled
  framework_id,       \* SchedulerProcess.framework.id.value
  master,             \* SchedulerProcess.master
  connected, aborted, failover,   \* the three threading.Event flags
  saved_offers,       \* offer id -> (slave id -> PID)
  saved_slaves,       \* slave id -> PID
  delayed,            \* bag of backoff arguments of pending delayed _do_registration
  detect_state,       \* "off" | "scheduled" (detect dispatched or delayed) | "waiting"
  pc,                 \* the handler the process is inside: [at |-> "idle"] or status_update
  last,               \* the operation that ran last and its outcome
  ev,                 \* its sends, delays and user callbacks, in order
  driver_aborted,     \* history: driver.abort() has returned DRIVER_ABORTED
  quiesced,           \* history: registration accepted or stop(False) handled since the last detected master
  launched,           \* history: slaves promoted by launch_tasks, no LostSlave received since
  launched_kept,      \* history: the same, no LostSlave handled past the guards since
  registered_called,  \* history: the user's registered callback has been invoked
  failover_expected,  \* history: built with a framework id or stop(False) run, no registration accepted since
  waiting, woken,     \* threads inside join's lock.wait(): still blocked / notified
  calls_left, messages_left, detections_left   \* what the environment has left

proc == <<framework_id, master, connected, aborted, failover, saved_offers, saved_slaves>>
hist == <<driver_aborted, quiesced, launched, launched_kept, registered_called, failover_expected>>
joins == <<waiting, woken>>
vars == <<status, scheduler_process, mailbox, framework_id, master, connected, aborted,
          failover, saved_offers, saved_slaves, delayed, detect_state, pc, last, ev,
          driver_aborted, quiesced, launched, launched_kept,
          registered_called, failover_expected, waiting, woken,
          calls_left, messages_left, detections_left>>

Idle == [at |-> "idle"]

\* ------------------------------------------------------------------ events
SendEv(to, type, body) == [kind |-> "send", to |-> to, type |-> type, body |-> body]
DelayEv(secs, method, arg) == [kind |-> "delay", secs |-> secs, method |-> method, arg |-> arg]
CallEv(name, arg) == [kind |-> "call", name |-> name, arg |-> arg]
\* Process.send: a send to no address puts nothing on the network.
send(to, type, body) == IF to = None THEN <<>> ELSE <<SendEv(to, type, body)>>

Sends(events) == SelectSeq(events, LAMBDA e : e.kind = "send")
Calls(events) == SelectSeq(events, LAMBDA e : e.kind = "call")

\* ---------------------------------------------------------------- guards
IgnoreIfAborted == aborted
\* A connected guard that lets every call through.
IgnoreIfDisconnected_never == FALSE
IgnoreIfDisconnected == ~connected
\* An origin check that accepts every sender.
valid_origin_any(from_pid) == TRUE
valid_origin(from_pid) == master = from_pid

InitWith(calls, messages, detections) ==
  /\ status = DRIVER_NOT_STARTED
  /\ scheduler_process = FALSE
  /\ mailbox = <<>>
  /\ framework_id \in {NoId, "f1"}
  /\ master = None
  /\ connected = FALSE
  /\ aborted = FALSE
  /\ failover = (framework_id # NoId)
  /\ saved_offers = EmptyMap
  /\ saved_slaves = EmptyMap
  /\ delayed = EmptyBag
  /\ detect_state = "off"
  /\ pc = Idle
  /\ last = [op |-> "__init__", outcome |-> "done", info |-> "-"]
  /\ ev = <<>>
  /\ driver_aborted = FALSE
  /\ quiesced = FALSE
  /\ launched = {}
  /\ launched_kept = {}
  /\ registered_called = FALSE
  /\ failover_expected = (framework_id # NoId)
  /\ waiting = 0
  /\ woken = 0
  /\ calls_left = calls
  /\ messages_left = messages
  /\ detections_left = detections

Init == InitWith(MaxCalls, MaxMessages, MaxDetections)


\* ------------------------------------------------------------ bookkeeping
Observe(op, outcome, info, events) ==
  /\ last' = [op |-> op, outcome |-> outcome, info |-> info]
  /\ ev' = events

\* A driver method runs on a user thread, under the driver's lock.
DriverCall ==
  /\ calls_left > 0
  /\ calls_left' = calls_left - 1
  /\ UNCHANGED <<messages_left, detections_left>>
  /\ UNCHANGED <<framework_id, master, connected, failover, saved_offers, saved_slaves>>
  /\ UNCHANGED <<delayed, pc, quiesced, launched, launched_kept>>
  /\ UNCHANGED <<registered_called, failover_expected>>

Return(op, value) == Observe(op, "returned", value, <<>>)

\* context.dispatch: the command joins the process's mailbox. Its arguments
\* travel with it untouched; they are drawn where the handler runs.
dispatch(cmd) == mailbox' = Append(mailbox, cmd)

\* The process takes the next dispatched command from its mailbox.
Takes(cmd) ==
  /\ scheduler_process
  /\ pc = Idle
  /\ mailbox # <<>>
  /\ Head(mailbox).cmd = cmd
  /\ mailbox' = Tail(mailbox)
  /\ UNCHANGED <<status, scheduler_process, driver_aborted, joins>>
  /\ UNCHANGED <<calls_left, messages_left, detections_left>>

\* The network delivers one protocol message to the process.
Receives ==
  /\ scheduler_process
  /\ pc = Idle
  /\ messages_left > 0
  /\ messages_left' = messages_left - 1
  /\ UNCHANGED <<calls_left, detections_left>>
  /\ UNCHANGED <<status, scheduler_process, mailbox, driver_aborted, joins>>

\* ----------------------------------------------------- PesosSchedulerDriver
Driver_start(uri_ok) ==
  /\ DriverCall
  /\ UNCHANGED <<mailbox, aborted, driver_aborted, joins>>
  /\ IF status # DRIVER_NOT_STARTED
       THEN /\ UNCHANGED <<status, scheduler_process, detect_state>>
            /\ Return("Driver.start", status)
       ELSE IF ~uri_ok
         THEN \* MasterDetector.Error: a bare return
              /\ status' = DRIVER_ABORTED
              /\ UNCHANGED <<scheduler_process, detect_state>>
              /\ Return("Driver.start", "None")
         ELSE \* spawn runs initialize, which dispatches detect
              /\ scheduler_process' = TRUE
              /\ detect_state' = "scheduled"
              /\ status' = DRIVER_RUNNING
              /\ Return("Driver.start", DRIVER_RUNNING)

\* self.lock.notify(): one of the threads blocked in lock.wait() is woken.
notify ==
  IF waiting > 0
    THEN /\ waiting' = waiting - 1
         /\ woken' = woken + 1
    ELSE UNCHANGED joins

\* A stop that returns the status it has just stored.
Driver_stop_returns_stored(failover_arg) ==
  /\ DriverCall
  /\ UNCHANGED <<scheduler_process, detect_state, aborted, driver_aborted>>
  /\ IF status \notin {DRIVER_RUNNING, DRIVER_ABORTED}
       THEN /\ UNCHANGED <<status, mailbox, joins>>
            /\ Return("Driver.stop", status)
       ELSE /\ IF scheduler_process
                 THEN dispatch([cmd |-> "stop", arg |-> failover_arg])
                 ELSE UNCHANGED mailbox
            /\ status' = DRIVER_STOPPED
            /\ notify
            /\ Return("Driver.stop", DRIVER_STOPPED)

Driver_stop(failover_arg) ==
  /\ DriverCall
  /\ UNCHANGED <<scheduler_process, detect_state, aborted, driver_aborted>>
  /\ IF status \notin {DRIVER_RUNNING, DRIVER_ABORTED}
       THEN /\ UNCHANGED <<status, mailbox, joins>>
            /\ Return("Driver.stop", status)
       ELSE /\ IF scheduler_process
                 THEN dispatch([cmd |-> "stop", arg |-> failover_arg])
                 ELSE UNCHANGED mailbox
            /\ status' = DRIVER_STOPPED
            /\ notify
            /\ Return("Driver.stop", IF status = DRIVER_ABORTED THEN DRIVER_ABORTED ELSE DRIVER_STOPPED)

Driver_abort_keeps_flag ==
  /\ DriverCall
  /\ UNCHANGED <<scheduler_process, detect_state>>
  /\ IF status # DRIVER_RUNNING
       THEN /\ UNCHANGED <<status, mailbox, aborted, driver_aborted, joins>>
            /\ Return("Driver.abort", status)
       ELSE /\ UNCHANGED aborted
            /\ dispatch([cmd |-> "abort", arg |-> "-"])
            /\ status' = DRIVER_ABORTED
            /\ notify
            /\ driver_aborted' = TRUE
            /\ Return("Driver.abort", DRIVER_ABORTED)

Driver_abort ==
  /\ DriverCall
  /\ UNCHANGED <<scheduler_process, detect_state>>
  /\ IF status # DRIVER_RUNNING
       THEN /\ UNCHANGED <<status, mailbox, aborted, driver_aborted, joins>>
            /\ Return("Driver.abort", status)
       ELSE \* the flag is set from the caller's thread, then abort is dispatched
            /\ aborted' = TRUE
            /\ dispatch([cmd |-> "abort", arg |-> "-"])
            /\ status' = DRIVER_ABORTED
            /\ notify
            /\ driver_aborted' = TRUE
            /\ Return("Driver.abort", DRIVER_ABORTED)

\* join: returns at once unless the driver is running, else blocks in lock.wait().
Driver_join ==
  /\ DriverCall
  /\ UNCHANGED <<status, scheduler_process, mailbox, detect_state, aborted, driver_aborted, woken>>
  /\ IF status # DRIVER_RUNNING
       THEN /\ UNCHANGED waiting
            /\ Return("Driver.join", status)
       ELSE /\ waiting' = waiting + 1
            /\ Observe("Driver.join", "waiting", status, <<>>)

\* A notified thread takes the lock again and tests the loop condition of join.
join_wakes ==
  /\ woken > 0
  /\ woken' = woken - 1
  /\ IF status = DRIVER_RUNNING
       THEN /\ waiting' = waiting + 1
            /\ Observe("Driver.join", "waiting", status, <<>>)
       ELSE /\ UNCHANGED waiting
            /\ Return("Driver.join", status)
  /\ UNCHANGED <<status, scheduler_process, mailbox, proc, delayed, detect_state, pc, hist>>
  /\ UNCHANGED <<calls_left, messages_left, detections_left>>

\* run: self.status = self.start(), then join if that is DRIVER_RUNNING.
Driver_run(uri_ok) ==
  /\ DriverCall
  /\ UNCHANGED <<mailbox, aborted, driver_aborted, woken>>
  /\ IF status # DRIVER_NOT_STARTED
       THEN \* start returns the status, which is stored again
            /\ UNCHANGED <<status, scheduler_process, detect_state>>
            /\ IF status = DRIVER_RUNNING
                 THEN /\ waiting' = waiting + 1
                      /\ Observe("Driver.run", "waiting", status, <<>>)
                 ELSE /\ UNCHANGED waiting
                      /\ Return("Driver.run", status)
       ELSE IF ~uri_ok
         THEN \* start sets DRIVER_ABORTED and returns None, which run stores
              /\ status' = "None"
              /\ UNCHANGED <<scheduler_process, detect_state, waiting>>
              /\ Return("Driver.run", "None")
         ELSE /\ scheduler_process' = TRUE
              /\ detect_state' = "scheduled"
              /\ status' = DRIVER_RUNNING
              /\ waiting' = waiting + 1
              /\ Observe("Driver.run", "waiting", DRIVER_RUNNING, <<>>)

\* requestResources, launchTasks, killTask, reviveOffers, sendFrameworkMessage,
\* reconcileTasks: the status check, then one dispatch.
DriverCommand(method, cmd, arg) ==
  /\ DriverCall
  /\ UNCHANGED <<status, scheduler_process, detect_state, aborted, driver_aborted, joins>>
  /\ status = DRIVER_RUNNING => Len(mailbox) < MaxMailbox
  /\ IF status # DRIVER_RUNNING
       THEN UNCHANGED mailbox
       ELSE dispatch([cmd |-> cmd, arg |-> arg])
  /\ Return(method, status)

Driver_requestResources == DriverCommand("Driver.requestResources", "request_resources", "-")
Driver_launchTasks == DriverCommand("Driver.launchTasks", "launch_tasks", "any")
Driver_killTask == DriverCommand("Driver.killTask", "kill_task", "-")
\* declineOffer(offer_id) is launch_tasks([offer_id], [])
Driver_declineOffer == DriverCommand("Driver.declineOffer", "launch_tasks", "decline")
Driver_reviveOffers == DriverCommand("Driver.reviveOffers", "revive_offers", "-")
Driver_sendFrameworkMessage == DriverCommand("Driver.sendFrameworkMessage", "send_framework_message", "-")
Driver_reconcileTasks == DriverCommand("Driver.reconcileTasks", "reconcile_tasks", "-")

\* ------------------------------------------- SchedulerProcess: registration
detect ==
  /\ scheduler_process
  /\ pc = Idle
  /\ detect_state = "scheduled"
  /\ detect_state' = "waiting"
  /\ Observe("detect", "done", master, <<>>)
  /\ UNCHANGED <<status, scheduler_process, mailbox, proc, delayed, pc, hist, joins>>
  /\ UNCHANGED <<calls_left, messages_left, detections_left>>

NextBackoff(backoff) == Max(backoff * 2, MASTER_MAX_BACKOFF_SECONDS)

\* A registration message whose failover bit does not read the failover flag.
RegistrationMessage_failover_always ==
  IF framework_id = NoId
    THEN [type |-> "RegisterFrameworkMessage", framework_id |-> framework_id, failover |-> FALSE]
    ELSE [type |-> "ReregisterFrameworkMessage", framework_id |-> framework_id, failover |-> TRUE]

RegistrationMessage ==
  IF framework_id = NoId
    THEN [type |-> "RegisterFrameworkMessage", framework_id |-> framework_id, failover |-> FALSE]
    ELSE [type |-> "ReregisterFrameworkMessage", framework_id |-> framework_id, failover |-> failover]

\* _do_registration(backoff) with the given connected flag and master: what it
\* sends and schedules (nothing when connected or without a master).
\* A guard that skips registration whatever the flag and the master are.
SkipsRegistration_always(conn, mstr) == TRUE
SkipsRegistration(conn, mstr) == conn \/ mstr = None

do_registration(conn, mstr, backoff) ==
  IF SkipsRegistration(conn, mstr)
    THEN <<>>
    ELSE send(mstr, RegistrationMessage.type, RegistrationMessage)
         \o <<DelayEv(backoff, "_do_registration", NextBackoff(backoff))>>

\* DetectorResults(previous): what the detector's future may hold, a leader
\* other than `previous` (None: the leader is lost) or an error.
DetectorError == PID("error", "", 0)
DetectorResults(previous) == ((Masters \cup {None}) \ {previous}) \cup {DetectorError}

detected(result) ==
  /\ scheduler_process
  /\ pc = Idle
  /\ detect_state = "waiting"
  /\ detections_left > 0
  /\ detections_left' = detections_left - 1
  /\ UNCHANGED <<calls_left, messages_left>>
  /\ UNCHANGED <<status, scheduler_process, mailbox, pc, driver_aborted, joins>>
  /\ UNCHANGED <<framework_id, aborted, failover, saved_offers, saved_slaves>>
  /\ UNCHANGED <<launched, launched_kept, registered_called, failover_expected>>
  /\ IF IgnoreIfAborted
       THEN /\ detect_state' = "off"
            /\ UNCHANGED <<master, connected, delayed, quiesced>>
            /\ Observe("detected", "dropped", result, <<>>)
       ELSE IF result = DetectorError
         THEN /\ detect_state' = "scheduled"
              /\ UNCHANGED <<master, connected, delayed, quiesced>>
              /\ Observe("detected", "retry", result,
                         <<DelayEv(MASTER_DETECTION_RETRY_SECONDS, "detect", 0)>>)
         ELSE LET reg == do_registration(FALSE, result, MASTER_INITIAL_BACKOFF_SECONDS) IN
              /\ connected' = FALSE
              /\ master' = result
              /\ delayed' = IF reg = <<>> THEN delayed
                            ELSE delayed (+) SetToBag({NextBackoff(MASTER_INITIAL_BACKOFF_SECONDS)})
              /\ detect_state' = "scheduled"
              /\ quiesced' = FALSE
              /\ Observe("detected", "done", result,
                         (IF connected THEN <<CallEv("disconnected", "-")>> ELSE <<>>) \o reg)

\* A delayed _do_registration(backoff) comes due.
delayed_do_registration(backoff) ==
  /\ scheduler_process
  /\ pc = Idle
  /\ BagIn(backoff, delayed)
  /\ SkipsRegistration(connected, master) \/ NextBackoff(backoff) <= MaxBackoff
  /\ LET reg == do_registration(connected, master, backoff)
         rest == delayed (-) SetToBag({backoff}) IN
     /\ delayed' = IF reg = <<>> THEN rest ELSE rest (+) SetToBag({NextBackoff(backoff)})
     /\ Observe("_do_registration", IF reg = <<>> THEN "skipped" ELSE "done", backoff, reg)
  /\ UNCHANGED <<status, scheduler_process, mailbox, proc, detect_state, pc, hist, joins>>
  /\ UNCHANGED <<calls_left, messages_left, detections_left>>

\* A registered handler without the check of the connected flag.
registered_while_connected(from_pid, fid) ==
  /\ Receives
  /\ UNCHANGED <<master, aborted, saved_offers, saved_slaves, delayed, detect_state, pc>>
  /\ UNCHANGED <<launched, launched_kept>>
  /\ IF IgnoreIfAborted \/ ~valid_origin(from_pid)
       THEN /\ UNCHANGED <<framework_id, connected, failover, quiesced>>
            /\ UNCHANGED <<registered_called, failover_expected>>
            /\ Observe("registered", "dropped", from_pid, <<>>)
       ELSE /\ framework_id' = fid
            /\ connected' = TRUE
            /\ failover' = FALSE
            /\ quiesced' = TRUE
            /\ registered_called' = TRUE
            /\ failover_expected' = FALSE
            /\ Observe("registered", "done", from_pid, <<CallEv("registered", fid)>>)

registered(from_pid, fid) ==
  /\ Receives
  /\ UNCHANGED <<master, aborted, saved_offers, saved_slaves, delayed, detect_state, pc>>
  /\ UNCHANGED <<launched, launched_kept>>
  /\ IF IgnoreIfAborted \/ connected \/ ~valid_origin(from_pid)
       THEN /\ UNCHANGED <<framework_id, connected, failover, quiesced>>
            /\ UNCHANGED <<registered_called, failover_expected>>
            /\ Observe("registered", "dropped", from_pid, <<>>)
       ELSE /\ framework_id' = fid
            /\ connected' = TRUE
            /\ failover' = FALSE
            /\ quiesced' = TRUE
            /\ registered_called' = TRUE
            /\ failover_expected' = FALSE
            /\ Observe("registered", "done", from_pid, <<CallEv("registered", fid)>>)

reregistered(from_pid, fid) ==
  /\ Receives
  /\ UNCHANGED <<framework_id, master, aborted, saved_offers, saved_slaves>>
  /\ UNCHANGED <<delayed, detect_state, pc, launched, launched_kept, registered_called>>
  /\ IF IgnoreIfAborted \/ connected \/ ~valid_origin(from_pid)
       THEN /\ UNCHANGED <<connected, failover, quiesced, failover_expected>>
            /\ Observe("reregistered", "dropped", from_pid, <<>>)
       ELSE IF framework_id # fid
         THEN \* assert self.framework.id == message.framework_id
              /\ UNCHANGED <<connected, failover, quiesced, failover_expected>>
              /\ Observe("reregistered", "raised", from_pid, <<>>)
         ELSE /\ connected' = TRUE
              /\ failover' = FALSE
              /\ quiesced' = TRUE
              /\ failover_expected' = FALSE
              /\ Observe("reregistered", "done", from_pid, <<CallEv("reregistered", "-")>>)


\* ------------------------------------------------ SchedulerProcess: inbound
\* for offer, pid in zip(message.offers, message.pids): saved_offers[..][..] = ..
RECURSIVE record_offers(_, _, _, _)
record_offers(table, offers, pids, i) ==
  IF i > Min(Len(offers), Len(pids))
    THEN table
    ELSE LET o == offers[i].id
             entry == IF o \in DOMAIN table THEN table[o] ELSE EmptyMap
         IN record_offers(MapPut(table, o, MapPut(entry, offers[i].slave_id, PID_from_string(pids[i]))),
                          offers, pids, i + 1)

resource_offers(from_pid, offers, pids) ==
  /\ Receives
  /\ UNCHANGED <<framework_id, master, connected, aborted, failover, saved_slaves>>
  /\ UNCHANGED <<delayed, detect_state, pc, quiesced, launched, launched_kept>>
  /\ UNCHANGED <<registered_called, failover_expected>>
  /\ IF IgnoreIfDisconnected \/ IgnoreIfAborted \/ ~valid_origin(from_pid)
       THEN /\ UNCHANGED saved_offers
            /\ Observe("resource_offers", "dropped", from_pid, <<>>)
       ELSE /\ saved_offers' = record_offers(saved_offers, offers, pids, 1)
            /\ Observe("resource_offers", "done", from_pid, <<CallEv("resource_offers", Len(offers))>>)

rescind_offer(from_pid, offer_id) ==
  /\ Receives
  /\ UNCHANGED <<framework_id, master, connected, aborted, failover, saved_slaves>>
  /\ UNCHANGED <<delayed, detect_state, pc, quiesced, launched, launched_kept>>
  /\ UNCHANGED <<registered_called, failover_expected>>
  /\ IF IgnoreIfDisconnected \/ IgnoreIfAborted \/ ~valid_origin(from_pid)
       THEN /\ UNCHANGED saved_offers
            /\ Observe("rescind_offer", "dropped", offer_id, <<>>)
       ELSE /\ saved_offers' = MapPop(saved_offers, offer_id)
            /\ Observe("rescind_offer", "done", offer_id, <<CallEv("offer_rescinded", offer_id)>>)

Updates == [task_id : TaskIds, slave_id : {"s1"}, uuid : {"u1"}]

\* status_update up to the call of status_update_acknowledgement: the guards.
status_update(from_pid, update) ==
  /\ Receives
  /\ UNCHANGED <<proc, delayed, detect_state, hist>>
  /\ IF IgnoreIfDisconnected \/ IgnoreIfAborted \/ ~valid_origin(from_pid)
       THEN /\ UNCHANGED pc
            /\ Observe("status_update", "dropped", update, <<>>)
       ELSE /\ pc' = [at |-> "status_update", update |-> update]
            /\ Observe("status_update", "running", update, <<>>)

\* status_update_acknowledgement looks at the aborted flag again before it sends.
Acknowledgement(update) ==
  IF master = None \/ IgnoreIfAborted
    THEN <<>>
    ELSE send(master, "StatusUpdateAcknowledgementMessage",
              [framework_id |-> framework_id, slave_id |-> update.slave_id,
               task_id |-> update.task_id, uuid |-> update.uuid])

\* The rest of status_update: the acknowledgement, then the user's callback.
status_update_acknowledgement ==
  /\ scheduler_process
  /\ pc.at = "status_update"
  /\ pc' = Idle
  /\ Observe("status_update", "done", pc.update,
             Acknowledgement(pc.update) \o <<CallEv("status_update", pc.update.task_id)>>)
  /\ UNCHANGED <<status, scheduler_process, mailbox, proc, delayed, detect_state, hist, joins>>
  /\ UNCHANGED <<calls_left, messages_left, detections_left>>

lost_slave(from_pid, slave_id) ==
  /\ Receives
  /\ UNCHANGED <<framework_id, master, connected, aborted, failover, saved_offers>>
  /\ UNCHANGED <<delayed, detect_state, pc, quiesced, registered_called, failover_expected>>
  /\ launched' = launched \ {slave_id}
  /\ IF IgnoreIfDisconnected \/ IgnoreIfAborted \/ ~valid_origin(from_pid)
       THEN /\ UNCHANGED <<saved_slaves, launched_kept>>
            /\ Observe("lost_slave", "dropped", slave_id, <<>>)
       ELSE /\ launched_kept' = launched_kept \ {slave_id}
            /\ IF slave_id \notin DOMAIN saved_slaves
                 THEN \* saved_slaves.pop(key): KeyError
                      /\ UNCHANGED saved_slaves
                      /\ Observe("lost_slave", "raised", slave_id, <<>>)
                 ELSE /\ saved_slaves' = MapPop(saved_slaves, slave_id)
                      /\ Observe("lost_slave", "done", slave_id, <<CallEv("slave_lost", slave_id)>>)

framework_message(from_pid) ==
  /\ Receives
  /\ UNCHANGED <<proc, delayed, detect_state, pc, hist>>
  /\ IF IgnoreIfAborted
       THEN Observe("framework_message", "dropped", from_pid, <<>>)
       ELSE Observe("framework_message", "done", from_pid, <<CallEv("framework_message", "-")>>)

error(from_pid) ==
  /\ Receives
  /\ UNCHANGED <<proc, delayed, detect_state, pc, hist>>
  /\ IF IgnoreIfAborted
       THEN Observe("error", "dropped", from_pid, <<>>)
       ELSE Observe("error", "done", from_pid, <<CallEv("error", "-")>>)

\* ----------------------------------------------- SchedulerProcess: commands
stop ==
  /\ Takes("stop")
  /\ UNCHANGED <<framework_id, master, aborted, saved_offers, saved_slaves>>
  /\ UNCHANGED <<delayed, detect_state, pc, launched, launched_kept, registered_called>>
  /\ IF IgnoreIfAborted
       THEN /\ UNCHANGED <<connected, failover, quiesced, failover_expected>>
            /\ Observe("stop", "dropped", Head(mailbox).arg, <<>>)
       ELSE IF ~Head(mailbox).arg
         THEN /\ connected' = FALSE
              /\ failover' = TRUE
              /\ quiesced' = TRUE
              /\ failover_expected' = TRUE
              /\ Observe("stop", "done", FALSE,
                         send(master, "UnregisterFrameworkMessage", [framework_id |-> framework_id]))
         ELSE /\ UNCHANGED <<connected, failover, quiesced, failover_expected>>
              /\ Observe("stop", "done", TRUE, <<>>)

abort ==
  /\ Takes("abort")
  /\ UNCHANGED <<framework_id, master, failover, saved_offers, saved_slaves>>
  /\ UNCHANGED <<delayed, detect_state, pc, quiesced, launched, launched_kept>>
  /\ UNCHANGED <<registered_called, failover_expected>>
  /\ IF IgnoreIfAborted
       THEN /\ UNCHANGED <<connected, aborted>>
            /\ Observe("abort", "dropped", "-", <<>>)
       ELSE /\ connected' = FALSE
            /\ aborted' = TRUE
            /\ Observe("abort", "done", "-", <<>>)

\* kill_task, request_resources, revive_offers, reconcile_tasks: the connected
\* guard, then one message to the master.
SendsToMaster(cmd, type, arg) ==
  /\ Takes(cmd)
  /\ UNCHANGED <<proc, delayed, detect_state, pc, hist>>
  /\ IF IgnoreIfDisconnected
       THEN Observe(cmd, "dropped", arg, <<>>)
       ELSE Observe(cmd, "done", arg, send(master, type, [framework_id |-> framework_id, arg |-> arg]))

kill_task(task_id) == SendsToMaster("kill_task", "KillTaskMessage", task_id)
request_resources == SendsToMaster("request_resources", "ResourceRequestMessage", "-")
revive_offers == SendsToMaster("revive_offers", "ReviveOffersMessage", "-")
reconcile_tasks == SendsToMaster("reconcile_tasks", "ReconcileTasksMessage", "-")

send_framework_message(slave_id) ==
  /\ Takes("send_framework_message")
  /\ UNCHANGED <<proc, delayed, detect_state, pc, hist>>
  /\ IF IgnoreIfDisconnected
       THEN Observe("send_framework_message", "dropped", slave_id, <<>>)
       ELSE Observe("send_framework_message", "done", slave_id,
                    send(IF slave_id \in DOMAIN saved_slaves THEN saved_slaves[slave_id] ELSE master,
                         "FrameworkToExecutorMessage",
                         [framework_id |-> framework_id, slave_id |-> slave_id]))


\* ------------------------------------------- SchedulerProcess: launch_tasks
Self == PID("scheduler(1)", "127.0.0.1", 8080)

\* A _local_lost that has its names bound and sends the update to self.pid.
local_lost_sends(task, reason) ==
  [raised |-> FALSE,
   events |-> send(Self, "StatusUpdate",
                   [task_id |-> task.task_id, state |-> "TASK_LOST", message |-> reason])]

\* _local_lost builds its update from the names mesos, now and uuid, none of
\* which the module binds: the call raises NameError before self.send.
local_lost(task, reason) == [raised |-> TRUE, events |-> <<>>]

HasExecutor(task) == task.executor # "absent"
HasExecutorFrameworkId(task) == task.executor \notin {"absent", "no_id"}
\* task.HasField('executor') == task.HasField('command')
Malformed(task) == HasExecutor(task) = task.command
InvalidFrameworkId(task) == HasExecutorFrameworkId(task) /\ task.executor # framework_id
\* task.executor.framework_id.value = self.framework.id.value
Populated(task) ==
  IF HasExecutor(task) /\ ~HasExecutorFrameworkId(task)
    THEN [task EXCEPT !.executor = framework_id]
    ELSE task

\* The loop over tasks taken when not connected.
RECURSIVE lost_all(_, _, _)
lost_all(tasks, i, events) ==
  IF i > Len(tasks)
    THEN [raised |-> FALSE, events |-> events]
    ELSE LET r == local_lost(tasks[i], "Master Disconnected") IN
         IF r.raised
           THEN [raised |-> TRUE, events |-> events \o r.events]
           ELSE lost_all(tasks, i + 1, events \o r.events)

\* The sanity-checking loop: a malformed task is reported lost and the loop
\* continues with the next task; the list `tasks` itself is left as it is.
RECURSIVE sanity_check(_, _, _)
sanity_check(tasks, i, events) ==
  IF i > Len(tasks)
    THEN [raised |-> FALSE, events |-> events]
    ELSE LET t == tasks[i]
             r == IF Malformed(t)
                    THEN local_lost(t, "Malformed: A task must have either an executor or command")
                    ELSE IF InvalidFrameworkId(t)
                      THEN local_lost(t, "Malformed: Executor has an invalid framework ID")
                      ELSE [raised |-> FALSE, events |-> <<>>]
         IN IF r.raised
              THEN [raised |-> TRUE, events |-> events \o r.events]
              ELSE sanity_check(tasks, i + 1, events \o r.events)

\* What the message's tasks field holds: every task of the call, an executor
\* without framework id filled in unless the task was reported lost.
MessageTasks(tasks) ==
  [i \in DOMAIN tasks |->
     IF Malformed(tasks[i]) \/ InvalidFrameworkId(tasks[i]) THEN tasks[i] ELSE Populated(tasks[i])]

\* An inner loop that caches a task's slave from whichever offer holds it.
Promote_from_any_offer(offers, slaves, offer_id, tasks) ==
  LET hit == { s \in { t.slave_id : t \in Range(tasks) } :
                 \E o \in DOMAIN offers : s \in DOMAIN offers[o] } IN
  [s \in (DOMAIN slaves) \cup hit |->
     IF s \in hit
       THEN offers[CHOOSE o \in DOMAIN offers : s \in DOMAIN offers[o]][s]
       ELSE slaves[s]]

\* The inner loop over tasks for one offer id.
Promote(offers, slaves, offer_id, tasks) ==
  IF offer_id \in DOMAIN offers
    THEN LET hit == { t.slave_id : t \in Range(tasks) } \cap DOMAIN offers[offer_id] IN
         [s \in (DOMAIN slaves) \cup hit |->
            IF s \in hit THEN offers[offer_id][s] ELSE slaves[s]]
    ELSE slaves

\* self.saved_offers.pop(offer_id.value): KeyError when the id is not a key.
PopRaises(offers, offer_id) == offer_id \notin DOMAIN offers

\* The loop over offer_ids: promote, then pop.
RECURSIVE offer_loop(_, _, _, _, _)
offer_loop(offer_ids, tasks, i, offers, slaves) ==
  IF i > Len(offer_ids)
    THEN [raised |-> FALSE, offers |-> offers, slaves |-> slaves]
    ELSE LET promoted == Promote(offers, slaves, offer_ids[i], tasks) IN
         IF PopRaises(offers, offer_ids[i])
           THEN [raised |-> TRUE, offers |-> offers, slaves |-> promoted]
           ELSE offer_loop(offer_ids, tasks, i + 1, MapPop(offers, offer_ids[i]), promoted)

\* History: the slaves S for which this call names an offer whose table entry
\* holds S, together with a task whose slave_id is S.
NamedWithOffer(offer_ids, tasks) ==
  { s \in SlaveIds :
      /\ \E i \in DOMAIN tasks : tasks[i].slave_id = s
      /\ \E j \in DOMAIN offer_ids :
           /\ offer_ids[j] \in DOMAIN saved_offers
           /\ s \in DOMAIN saved_offers[offer_ids[j]] }

TaskIdsOf(tasks) == [i \in DOMAIN tasks |-> tasks[i].task_id]

launch_tasks(offer_ids, tasks) ==
  /\ Takes("launch_tasks")
  /\ Head(mailbox).arg = "decline" => (Len(offer_ids) = 1 /\ tasks = <<>>)
  /\ UNCHANGED <<framework_id, master, connected, aborted, failover>>
  /\ UNCHANGED <<delayed, detect_state, pc, quiesced, registered_called, failover_expected>>
  /\ launched' = launched \cup NamedWithOffer(offer_ids, tasks)
  /\ launched_kept' = launched_kept \cup NamedWithOffer(offer_ids, tasks)
  /\ LET info == [offer_ids |-> offer_ids, tasks |-> TaskIdsOf(tasks)] IN
     IF ~connected
       THEN LET lost == lost_all(tasks, 1, <<>>) IN
            /\ UNCHANGED <<saved_offers, saved_slaves>>
            /\ Observe("launch_tasks", IF lost.raised THEN "raised" ELSE "done", info, lost.events)
       ELSE LET checked == sanity_check(tasks, 1, <<>>)
                looped == offer_loop(offer_ids, tasks, 1, saved_offers, saved_slaves)
            IN IF checked.raised
                 THEN /\ UNCHANGED <<saved_offers, saved_slaves>>
                      /\ Observe("launch_tasks", "raised", info, checked.events)
                 ELSE /\ saved_offers' = looped.offers
                      /\ saved_slaves' = looped.slaves
                      /\ IF looped.raised
                           THEN Observe("launch_tasks", "raised", info, checked.events)
                           ELSE Observe("launch_tasks", "done", info,
                                        checked.events
                                        \o send(master, "LaunchTasksMessage",
                                                [framework_id |-> framework_id,
                                                 tasks |-> MessageTasks(tasks),
                                                 offer_ids |-> offer_ids]))

\* ------------------------------------------------------------ specification
OfferLists == SeqsUpTo(Offers, MaxList)
\* message.pids runs parallel to message.offers
PidList(offers) == [i \in DOMAIN offers |-> PidString(offers[i].slave_id)]

DriverLifecycle ==
  \/ \E uri_ok \in BOOLEAN : Driver_start(uri_ok)
  \/ \E f \in BOOLEAN : Driver_stop(f)
  \/ Driver_abort

DriverCommands ==
  \/ Driver_requestResources
  \/ Driver_launchTasks
  \/ Driver_killTask
  \/ Driver_declineOffer
  \/ Driver_reviveOffers
  \/ Driver_sendFrameworkMessage
  \/ Driver_reconcileTasks

Detection ==
  \/ detect
  \/ \E r \in DetectorResults(master) : detected(r)

Retries == \E b \in BagToSet(delayed) : delayed_do_registration(b)

Registration ==
  \/ \E m \in Masters, f \in FrameworkIds : registered(m, f)
  \/ \E m \in Masters, f \in FrameworkIds : reregistered(m, f)

OfferMessages ==
  \/ \E m \in Masters, os \in OfferLists : resource_offers(m, os, PidList(os))
  \/ \E m \in Masters, o \in OfferIds : rescind_offer(m, o)
  \/ \E m \in Masters, s \in SlaveIds : lost_slave(m, s)

StatusUpdates ==
  \/ \E m \in Masters, u \in Updates : status_update(m, u)
  \/ status_update_acknowledgement

OtherMessages ==
  \/ \E m \in Masters : framework_message(m)
  \/ \E m \in Masters : error(m)

LifecycleCommands ==
  \/ stop
  \/ abort

Commands ==
  \/ \E t \in TaskIds : kill_task(t)
  \/ request_resources
  \/ revive_offers
  \/ reconcile_tasks
  \/ \E s \in SlaveIds : send_framework_message(s)

Launches ==
  \E os \in SeqsUpTo(OfferIds, MaxList), ts \in SeqsUpTo(Tasks, MaxList) : launch_tasks(os, ts)

Next ==
  \/ DriverLifecycle
  \/ DriverCommands
  \/ Detection
  \/ Retries
  \/ Registration
  \/ OfferMessages
  \/ StatusUpdates
  \/ OtherMessages
  \/ LifecycleCommands
  \/ Commands
  \/ Launches

Spec == Init /\ [][Next]_vars

\* The driver facade and the threads that join it.
DriverJoins ==
  \/ Driver_join
  \/ \E uri_ok \in BOOLEAN : Driver_run(uri_ok)
  \/ join_wakes

InitDriver == InitWith(MaxDriverCalls, 0, 0)

NextDriver ==
  \/ DriverLifecycle
  \/ DriverJoins
  \/ LifecycleCommands

\* A notified thread gets the lock back; the process works off its mailbox.
SpecDriver ==
  /\ InitDriver
  /\ [][NextDriver]_vars
  /\ WF_vars(join_wakes)
  /\ WF_vars(LifecycleCommands)

\* Detection, registration and its retries, with the driver's start, stop and abort.
InitRegistration ==
  InitWith(MaxRegistrationCalls, MaxRegistrationMessages, MaxRegistrationDetections)

NextRegistration ==
  \/ DriverLifecycle
  \/ Detection
  \/ Retries
  \/ Registration
  \/ LifecycleCommands

SpecRegistration == InitRegistration /\ [][NextRegistration]_vars


\* ------------------------------------------------------------------ claims
TaskById(id) == CHOOSE t \in Tasks : t.task_id = id
IsLaunch(e) == e.kind = "send" /\ e.type = "LaunchTasksMessage"
IsAck(e) == e.kind = "send" /\ e.type = "StatusUpdateAcknowledgementMessage"
IsRegistration(e) ==
  e.kind = "send" /\ e.type \in {"RegisterFrameworkMessage", "ReregisterFrameworkMessage"}
UserCommands ==
  {"kill_task", "request_resources", "revive_offers", "reconcile_tasks",
   "send_framework_message", "launch_tasks"}

\* C1: whenever the StatusUpdate handler has invoked the user's status_update
\* callback, that handler run has first sent exactly one acknowledgement for
\* the update to the current master.
C1_AckBeforeCallback ==
  (last.op = "status_update" /\ last.outcome = "done") =>
    /\ Len(SelectSeq(ev, IsAck)) = 1
    /\ IsAck(ev[1])
    /\ ev[1].to = master
    /\ ev[1].body.task_id = last.info.task_id
    /\ ev[Len(ev)] = CallEv("status_update", last.info.task_id)

\* C2: once driver.abort() has returned DRIVER_ABORTED, a protocol message
\* whose handler starts is dropped: nothing is sent or called, and the process
\* state (tables, master, framework id, flags) stays as it was.
C2_AbortedDropsInbound ==
  [][ (driver_aborted /\ messages_left' # messages_left) =>
        /\ ev' = <<>>
        /\ last'.outcome = "dropped"
        /\ pc' = Idle
        /\ UNCHANGED <<saved_offers, saved_slaves, master, framework_id,
                       connected, aborted, failover>> ]_vars

C2_Witness ==
  /\ driver_aborted
  /\ connected
  /\ saved_offers # EmptyMap
  /\ last.op = "resource_offers"
  /\ last.outcome = "dropped"
  /\ last.info = master

\* C3: a delayed _do_registration that comes due after the process was aborted,
\* or after it accepted a (re)registration or handled stop(failover=False) with
\* no master detected since, sends no registration message.
C3_RetriesStop ==
  (last.op = "_do_registration" /\ (aborted \/ quiesced)) =>
    SelectSeq(ev, IsRegistration) = <<>>

\* C4: no LaunchTasksMessage holds a malformed task (executor and command both
\* or neither set, or an executor with another framework's id), and a call
\* whose tasks are all malformed sends no LaunchTasksMessage.
C4_MalformedNotLaunched ==
  /\ \A i \in DOMAIN ev :
       IsLaunch(ev[i]) =>
         \A k \in DOMAIN ev[i].body.tasks :
           ~Malformed(ev[i].body.tasks[k]) /\ ~InvalidFrameworkId(ev[i].body.tasks[k])
  /\ ( /\ last.op = "launch_tasks"
       /\ connected
       /\ last.info.tasks # <<>>
       /\ \A k \in DOMAIN last.info.tasks :
            \/ Malformed(TaskById(last.info.tasks[k]))
            \/ InvalidFrameworkId(TaskById(last.info.tasks[k])) )
     => SelectSeq(ev, IsLaunch) = <<>>

C4_Witness ==
  /\ last.op = "launch_tasks"
  /\ connected
  /\ Len(last.info.tasks) = 2
  /\ ~Malformed(TaskById(last.info.tasks[1]))
  /\ InvalidFrameworkId(TaskById(last.info.tasks[2]))
  /\ ev = <<>>

\* C5: launch_tasks sends one StatusUpdate to the process's own address for
\* every TASK_LOST it synthesizes: one per task when not connected, one per
\* malformed task when connected.
IsLoopback(e) == e.kind = "send" /\ e.to = Self
C5_LocalLostLoopsBack ==
  last.op = "launch_tasks" =>
    Len(SelectSeq(ev, IsLoopback)) =
      IF connected
        THEN Cardinality({ k \in DOMAIN last.info.tasks :
                             \/ Malformed(TaskById(last.info.tasks[k]))
                             \/ InvalidFrameworkId(TaskById(last.info.tasks[k])) })
        ELSE Len(last.info.tasks)

\* C6: after launch_tasks has been handled (here: while connected, with
\* well-formed tasks), the offer table has no entry for any offer id it named.
C6_OfferGoneAfterLaunch ==
  ( /\ last.op = "launch_tasks"
    /\ connected
    /\ \A k \in DOMAIN last.info.tasks :
         /\ ~Malformed(TaskById(last.info.tasks[k]))
         /\ ~InvalidFrameworkId(TaskById(last.info.tasks[k])) )
  => \A i \in DOMAIN last.info.offer_ids : last.info.offer_ids[i] \notin DOMAIN saved_offers

\* C7 as stated: every cached slave was promoted by a launch_tasks call that
\* named it with an offer holding it, and no LostSlave for it was received since.
C7_CachedSlaveLaunchedNoLostReceived == DOMAIN saved_slaves \subseteq launched

\* C7 as amended: ... and no LostSlave for it has passed the connected, aborted
\* and origin guards since.
C7_CachedSlaveLaunchedNoLostHandled == DOMAIN saved_slaves \subseteq launched_kept

C7_Witness ==
  /\ last.op = "lost_slave"
  /\ last.outcome = "dropped"
  /\ last.info \in DOMAIN saved_slaves

\* C8: launch_tasks handled while connected (with well-formed tasks) completes
\* and sends a LaunchTasksMessage with all requested offer ids to the master,
\* whether or not the offer ids are in the table and the slaves match.
C8_LaunchProceeds ==
  ( /\ last.op = "launch_tasks"
    /\ connected
    /\ \A k \in DOMAIN last.info.tasks :
         /\ ~Malformed(TaskById(last.info.tasks[k]))
         /\ ~InvalidFrameworkId(TaskById(last.info.tasks[k])) )
  => /\ last.outcome = "done"
     /\ \E i \in DOMAIN ev :
          /\ IsLaunch(ev[i])
          /\ ev[i].to = master
          /\ ev[i].body.offer_ids = last.info.offer_ids

\* C9: an operation that runs while connected is clear sends nothing to the
\* master or a slave, unless it is detect, detected, _do_registration, stop or
\* abort; in particular the six user commands send nothing.
C9_DisconnectedSendsNothing ==
  [][ (~connected /\ last'.op \notin {"detect", "detected", "_do_registration", "stop", "abort"}) =>
        \A i \in DOMAIN ev' : ev'[i].kind = "send" => ev'[i].to = Self ]_vars

C9_Witness ==
  /\ ~connected
  /\ master # None
  /\ last.op \in UserCommands
  /\ last.op # "launch_tasks"
  /\ ev = <<>>

\* C10: once the process has handled the abort command dispatched by
\* driver.abort(), connected is clear and aborted is set.
C10_AbortHandled ==
  last.op = "abort" => (~connected /\ aborted)

DriverStatuses == {DRIVER_NOT_STARTED, DRIVER_RUNNING, DRIVER_ABORTED, DRIVER_STOPPED}

\* C11: the stored driver status is one of the four statuses, and so is every
\* value a driver method returns.
C11_StatusInEnumeration ==
  /\ status \in DriverStatuses
  /\ last.outcome = "returned" => last.info \in DriverStatuses

IsRetryDelay(e) == e.kind = "delay" /\ e.method = "_do_registration"

\* C12: a registration attempt schedules the next one after a gap of at most
\* 60 s, and the gap after that one is twice as long, clamped at 60 s (2, 4, 8, ...).
C12_BackoffDoublesClamped ==
  \A i \in DOMAIN ev :
    IsRetryDelay(ev[i]) =>
      /\ ev[i].secs <= MASTER_MAX_BACKOFF_SECONDS
      /\ ev[i].arg = Min(ev[i].secs * 2, MASTER_MAX_BACKOFF_SECONDS)

IsRegisteredCall(e) == e.kind = "call" /\ e.name = "registered"
IsRegistrationReply == last.op \in {"registered", "reregistered"}

\* C13 as stated: over a whole run the user's registered callback is invoked
\* at most once, however many FrameworkRegistered messages arrive.
C13_RegisteredCallbackOnce ==
  [][ (\E i \in DOMAIN ev' : IsRegisteredCall(ev'[i])) => ~registered_called ]_vars

\* C13 as amended: a FrameworkRegistered or FrameworkReregistered message that
\* arrives while connected is set is dropped (no callback, framework id,
\* connected and failover unchanged), so the registered callback is invoked only
\* by a message that arrives while connected is clear, and once by it.
C13_RegisteredDroppedWhileConnected ==
  [][ (messages_left' # messages_left /\ last'.op \in {"registered", "reregistered"}) =>
        /\ connected =>
             /\ ev' = <<>>
             /\ last'.outcome = "dropped"
             /\ UNCHANGED <<framework_id, connected, failover>>
        /\ Len(SelectSeq(ev', IsRegisteredCall)) <= 1
        /\ (\E i \in DOMAIN ev' : IsRegisteredCall(ev'[i])) => (~connected /\ connected') ]_vars

\* A second FrameworkRegistered from the current master is dropped.
C13_Witness ==
  /\ last.op = "registered"
  /\ last.outcome = "dropped"
  /\ last.info = master
  /\ connected
  /\ ~aborted
  /\ registered_called

\* C14: a registration message is a RegisterFrameworkMessage exactly when the
\* framework id is empty; a ReregisterFrameworkMessage carries the framework id
\* and its failover bit is set exactly when the process was built with a
\* framework id or has run stop(failover=False), with no registration accepted
\* since; the one sent by detected right after it cleared connected has it clear.
C14_RegistrationMessageKind ==
  \A i \in DOMAIN ev :
    IsRegistration(ev[i]) =>
      /\ ev[i].type = "RegisterFrameworkMessage" <=> framework_id = NoId
      /\ ev[i].type = "ReregisterFrameworkMessage" =>
           /\ ev[i].body.framework_id = framework_id
           /\ ev[i].body.failover = failover_expected
           /\ (last.op = "detected" /\ ev[1] = CallEv("disconnected", "-")) => ~ev[i].body.failover

\* detected finds a new master after an accepted registration and reregisters.
C14_Witness ==
  /\ last.op = "detected"
  /\ Len(ev) = 3
  /\ ev[1] = CallEv("disconnected", "-")
  /\ ev[2].kind = "send"
  /\ ev[2].type = "ReregisterFrameworkMessage"
  /\ ~ev[2].body.failover
  /\ ev[2].to = master

\* C15: stop() on an ABORTED driver returns ABORTED, stores STOPPED and
\* notifies a thread waiting in join; on a RUNNING driver it returns STOPPED and
\* stores STOPPED; on a NOT_STARTED or STOPPED driver it changes nothing,
\* dispatches nothing and returns the status.
C15_StopReturns ==
  [][ (last'.op = "Driver.stop" /\ calls_left' # calls_left) =>
        /\ status = DRIVER_ABORTED =>
             /\ last'.info = DRIVER_ABORTED
             /\ status' = DRIVER_STOPPED
             /\ waiting > 0 => (waiting' = waiting - 1 /\ woken' = woken + 1)
        /\ status = DRIVER_RUNNING =>
             /\ last'.info = DRIVER_STOPPED
             /\ status' = DRIVER_STOPPED
        /\ status \in {DRIVER_NOT_STARTED, DRIVER_STOPPED} =>
             /\ last'.info = status
             /\ UNCHANGED <<status, mailbox, scheduler_process, proc, joins>> ]_vars

\* stop() has run on an aborted driver while a thread was still waiting in join.
C15_Witness ==
  /\ last.op = "Driver.stop"
  /\ last.info = DRIVER_ABORTED
  /\ status = DRIVER_STOPPED
  /\ driver_aborted
  /\ woken = 2

\* C16: once the driver status is ABORTED or STOPPED, every thread blocked in
\* join (or run) eventually returns: none is left waiting or notified.
C16_JoinersReturn ==
  (status \in {DRIVER_ABORTED, DRIVER_STOPPED}) ~> (waiting = 0 /\ woken = 0)

\* C17: a LostSlave message that passes the aborted, connected and origin
\* guards leaves the slave out of the slave cache and makes exactly one
\* slave_lost callback for it.
C17_LostSlaveCallback ==
  (last.op = "lost_slave" /\ last.outcome # "dropped") =>
    /\ last.info \notin DOMAIN saved_slaves
    /\ ev = <<CallEv("slave_lost", last.info)>>

IsDisconnectedCall(e) == e.kind = "call" /\ e.name = "disconnected"

\* C18: when detected runs while connected and not aborted, a failed future
\* arms a new detect; a result clears connected, calls disconnected once and
\* first, stores the result as master, sends (to a non-null result) a
\* ReregisterFrameworkMessage with the framework id as the next thing, and arms
\* a new detect.
C18_DetectedWhileConnected ==
  [][ (detections_left' # detections_left /\ connected /\ ~aborted) =>
        /\ last'.op = "detected"
        /\ detect_state' = "scheduled"
        /\ last'.info = DetectorError =>
             ev' = <<DelayEv(MASTER_DETECTION_RETRY_SECONDS, "detect", 0)>>
        /\ last'.info # DetectorError =>
             /\ ~connected'
             /\ master' = last'.info
             /\ Len(ev') >= 1
             /\ ev'[1] = CallEv("disconnected", "-")
             /\ Len(SelectSeq(ev', IsDisconnectedCall)) = 1
             /\ IF last'.info = None
                  THEN SelectSeq(ev', IsRegistration) = <<>>
                  ELSE /\ framework_id # NoId
                       /\ Len(ev') >= 2
                       /\ ev'[2] = SendEv(last'.info, "ReregisterFrameworkMessage",
                                          [type |-> "ReregisterFrameworkMessage",
                                           framework_id |-> framework_id,
                                           failover |-> failover])
                       /\ Len(SelectSeq(ev', IsRegistration)) = 1 ]_vars

\* The detector reports another master to a connected process.
C18_Witness ==
  /\ last.op = "detected"
  /\ last.info \in Masters
  /\ master = last.info
  /\ ~connected
  /\ detect_state = "scheduled"
  /\ registered_called
  /\ \E i \in DOMAIN ev : IsDisconnectedCall(ev[i])

\* C19: whenever the connected flag is set, master is not None (so the
\* handlers' "assert self.master is not None" cannot fail).
C19_ConnectedHasMaster == connected => master # None

\* Connected again after the master was lost and a new one detected.
C19_Witness ==
  /\ connected
  /\ master \in Masters
  /\ detections_left = 0
  /\ last.op \in {"registered", "reregistered"}
  /\ last.outcome = "done"
  /\ last.info = master

\* C20: at most one delayed _do_registration is pending at any time.
C20_OnePendingRetry == BagCardinality(delayed) <= 1

====
